---- MODULE Spec2Model ----
(***************************************************************************)
(* Model of the account-creation workflow of facbt:                        *)
(*   - FacebookAccountCreator.create_account (src/core/account_creator.py) *)
(*     and the helpers it awaits, one action per step of the coroutine;    *)
(*   - FACBTEngine.create_account and FACBTEngine.stop (src/engine.py).    *)
(* The managers, the browser driver and the event loop are the             *)
(* environment: every call on them returns a value, returns None, raises,  *)
(* or (at an await) is the point where a cancellation is delivered.        *)
(***************************************************************************)
EXTENDS Integers, Sequences, FiniteSets, TLC

\* ------------------------------------------------------------------ bounds
\* Longest time one get_emails poll may take (seconds); asyncio.sleep is taken to
\* return exactly after check_interval.
MaxPollTime == 5
\* Cancellations the event loop may deliver to one task.
MaxCancels == 1
\* Calls of FACBTEngine.create_account a caller makes.
MaxAttempts == 2
\* Largest --accounts value on the command line.
MaxAccounts == 2
\* Signals (SIGINT, SIGTERM) the process receives.
MaxSignals == 1
\* Polls of the email source by each of two concurrent tasks.
MaxTwoPolls == 1

\* ------------------------------------------------------- program constants
\* account_creator.py:560  max_wait_time = 300
MaxWaitTime == 300
\* account_creator.py:561  check_interval = 10
CheckInterval == 10

\* ------------------------------------------------------------------ values
TaskIds == {1, 2}
None == "None"
Unbound == "Unbound"
Identities == {"id1"}
CustomIdentities == {"id0"}
Emails == {"e1", "e2"}
Proxies == {"p1", "p2"}
UserAgents == {"ua1"}
AccountIds == {"acct"}
NoDriver == 0

\* AccountStatus (account_creator.py:30-37)
AccountStatus == {"pending", "creating", "verifying", "completed", "failed", "disabled"}

\* f"{proxy.host}:{proxy.port}" if proxy else None (account_creator.py:129)
ProxyUsed(proxy) == IF proxy = None THEN None ELSE proxy

VARIABLES
    \* ---- FacebookAccountCreator instance fields (shared by its tasks)
    driver,             \* self.driver: NoDriver or the id of the task that created it
    current_proxy,      \* self.current_proxy
    current_user_agent, \* self.current_user_agent
    \* ---- one create_account coroutine per task
    pc,                 \* position of the coroutine
    args,               \* custom_identity, custom_email
    loc,                \* locals identity, email, proxy, user_agent
    result,             \* the AccountCreationResult being built
    exc,                \* exception propagating out of the try statement
    errmsg,             \* str(e) of the exception caught at line 162
    waitres,            \* return value of _wait_for_verification_email
    vres,               \* return value of _handle_verification
    elapsed,            \* time.time() - start_time in the polling loop
    polls,              \* get_emails calls made by the polling loop
    steps,              \* workflow steps the task has entered, in order
    cancels,            \* where each cancellation was delivered to the task
    \* ---- environment
    cancelIsBase,       \* CancelledError derives from BaseException (Python >= 3.8)
    browsers,           \* state of the driver each task created
    calls,              \* calls made on the managers, in order
    \* ---- FACBTEngine
    status,             \* self.status
    shutdown_event,     \* self.shutdown_event.is_set()
    components,         \* the manager and service fields that are not None
    statistics,         \* self.statistics
    epc,                \* position of the engine coroutine being run
    einit,              \* index of the component initialize() is at
    eloc,               \* locals of FACBTEngine.create_account
    eresult,            \* the AccountResult create_account is returning
    eexc,               \* exception propagating out of the engine coroutine
    ecancels,           \* cancellations delivered to the engine coroutine
    ecalls,             \* calls the engine made on its managers, in order
    \* ---- main() and FACBTApplication
    apc,                \* position of main()
    opts,               \* the parsed command line
    app_engine,         \* app.engine is not None
    app_shutdown,       \* app.shutdown_event.is_set()
    loop_i,             \* i of the for loop of FACBTApplication.run
    success_count,      \* success_count of FACBTApplication.run
    sigs,               \* signals received / shutdown tasks not yet run
    alog,               \* what main() and the shutdown tasks did, in order
    mexit,              \* how the try statement of main() was left
    \* ---- FacebookAccountCreator.health_check
    hpc,                \* position of health_check
    hin,                \* what each dependency's health_check does
    hidx,               \* the dependency health_check is at
    hres                \* the value health_check returned

creatorVars == <<driver, current_proxy, current_user_agent, pc, args, loc, result,
                 exc, errmsg, waitres, vres, elapsed, polls, steps, cancels,
                 cancelIsBase, browsers, calls>>

engineVars == <<status, shutdown_event, components, statistics, epc, einit, eloc,
                eresult, eexc, ecancels, ecalls>>

appVars == <<apc, opts, app_engine, app_shutdown, loop_i, success_count, sigs, alog,
            mexit>>

healthVars == <<hpc, hin, hidx, hres>>

nonCreatorVars == <<engineVars, appVars, healthVars>>
nonEngineVars == <<creatorVars, appVars, healthVars>>

vars == <<creatorVars, engineVars, appVars, healthVars>>

\* ----------------------------------------------------------------- helpers
NoVres == [success |-> FALSE, error |-> None, verification_required |-> FALSE,
           verification_method |-> None, account_id |-> None, link |-> FALSE]

\* AccountCreationResult(success=False, ...) (account_creator.py:40-54, 107)
NewResult == [success |-> FALSE, account_id |-> None, email |-> None,
              password |-> None, identity |-> None, status |-> "pending",
              error_message |-> None, verification_required |-> FALSE,
              verification_method |-> None, proxy_used |-> None,
              user_agent_used |-> None]

Call(t, op, arg) == [by |-> t, op |-> op, arg |-> arg]

\* Number of calls of op with argument arg made by task t.
RECURSIVE CountCalls(_, _, _, _)
CountCalls(s, t, op, arg) ==
    IF s = <<>> THEN 0
    ELSE (IF Head(s) = Call(t, op, arg) THEN 1 ELSE 0) + CountCalls(Tail(s), t, op, arg)

\* Whether `except Exception` catches the fault o.
IsCaught(o) == o = "raise" \/ (o = "cancel" /\ ~cancelIsBase)

\* Outcomes of an awaited call: a cancellation only while the loop may deliver one.
AwaitFaults(t) == {"raise"} \cup (IF Len(cancels[t]) < MaxCancels THEN {"cancel"} ELSE {})

Delivered(t, o) ==
    cancels' = [cancels EXCEPT ![t] = IF o = "cancel" THEN Append(@, pc[t]) ELSE @]

\* A fault o raised inside the try block of create_account (lines 109-160):
\* an Exception goes to the handler at line 162, anything else to finally.
Throw(t, o, msg) ==
    /\ pc' = [pc EXCEPT ![t] = IF IsCaught(o) THEN "except" ELSE "finally"]
    /\ exc' = [exc EXCEPT ![t] = IF IsCaught(o) THEN "none" ELSE "CancelledError"]
    /\ errmsg' = [errmsg EXCEPT ![t] = IF IsCaught(o) THEN msg ELSE @]
    /\ Delivered(t, o)

\* The locals of FACBTEngine.create_account before any is bound.
NoLocals == [identity |-> Unbound, email |-> Unbound, proxy |-> Unbound,
             user_agent |-> Unbound, session |-> Unbound]

Goto(t, l) == pc' = [pc EXCEPT ![t] = l]
Enter(t, s) == steps' = [steps EXCEPT ![t] = Append(@, s)]

\* ------------------------------------------------------------------- Init
InitCreator(started) ==
    /\ driver = NoDriver
    /\ current_proxy = None
    /\ current_user_agent = None
    /\ pc = [t \in TaskIds |-> IF t \in started THEN "start" ELSE "unused"]
    /\ args \in [TaskIds -> [custom_identity : CustomIdentities \cup {None},
                             custom_email : {"e1", None}]]
    /\ \A t \in TaskIds \ started :
          args[t] = [custom_identity |-> None, custom_email |-> None]
    /\ loc = [t \in TaskIds |-> [identity |-> Unbound, email |-> Unbound,
                                 proxy |-> Unbound, user_agent |-> Unbound]]
    /\ result = [t \in TaskIds |-> NewResult]
    /\ exc = [t \in TaskIds |-> "none"]
    /\ errmsg = [t \in TaskIds |-> None]
    /\ waitres = [t \in TaskIds |-> NoVres]
    /\ vres = [t \in TaskIds |-> NoVres]
    /\ elapsed = [t \in TaskIds |-> 0]
    /\ polls = [t \in TaskIds |-> 0]
    /\ steps = [t \in TaskIds |-> <<>>]
    /\ cancels = [t \in TaskIds |-> <<>>]
    /\ cancelIsBase \in BOOLEAN
    /\ browsers = [t \in TaskIds |-> "none"]
    /\ calls = <<>>

\* FACBTEngine.__init__, engine.py:58-80
InitEngine ==
    /\ status = "stopped"
    /\ shutdown_event = FALSE
    /\ components = {}
    /\ statistics = [total_attempts |-> 0, successful_creations |-> 0,
                     failed_creations |-> 0]
    /\ epc = "idle"
    /\ einit = 1
    /\ eloc = NoLocals
    /\ eresult = None
    /\ eexc = "none"
    /\ ecancels = 0
    /\ ecalls = <<>>

\* main() before line 203: no application yet; the command line is parsed.
InitApp(started) ==
    /\ apc = IF started THEN "m_start" ELSE "unused"
    /\ opts \in [test_mode : BOOLEAN, validate_config : BOOLEAN, proxy_test : BOOLEAN,
                  email_test : BOOLEAN, accounts : 0..MaxAccounts]
    /\ ~started => opts = [test_mode |-> FALSE, validate_config |-> FALSE,
                           proxy_test |-> FALSE, email_test |-> FALSE, accounts |-> 0]
    /\ app_engine = FALSE
    /\ app_shutdown = FALSE
    /\ loop_i = 0
    /\ success_count = 0
    /\ sigs = [received |-> 0, pending |-> 0]
    /\ alog = <<>>
    /\ mexit = "none"

\* What the six dependencies of health_check do when asked.
HealthOutcomes == {"true", "false", "raise", "cancel"}
Dependencies == <<"proxy_manager", "user_agent_manager", "email_manager",
                  "identity_manager", "behavior_simulator", "anti_detection">>

InitHealth(started) ==
    /\ hpc = IF started THEN "check" ELSE "unused"
    /\ hin \in [1..Len(Dependencies) -> HealthOutcomes]
    /\ ~started => hin = [i \in 1..Len(Dependencies) |-> "true"]
    /\ hidx = 1
    /\ hres = None

Init == InitCreator({1}) /\ InitEngine /\ InitApp(FALSE) /\ InitHealth(FALSE)

\* ---------------------------------------------------------------- actions
\* create_account, lines 106-107
Start(t) ==
    /\ pc[t] = "start"
    /\ result' = [result EXCEPT ![t] = NewResult]
    /\ Goto(t, "rate_limit")
    /\ UNCHANGED <<driver, current_proxy, current_user_agent, args, loc, exc, errmsg,
                   waitres, vres, elapsed, polls, steps, cancels, cancelIsBase,
                   browsers, calls>>
    /\ UNCHANGED nonCreatorVars

\* line 113: await self.anti_detection.wait_for_rate_limit()
WaitForRateLimit(t) ==
    /\ pc[t] = "rate_limit"
    /\ Enter(t, "rate_limit")
    /\ \E o \in {"ok"} \cup AwaitFaults(t) :
          IF o = "ok"
          THEN Goto(t, "identity") /\ UNCHANGED <<exc, errmsg, cancels>>
          ELSE Throw(t, o, "rate limit wait failed")
    /\ UNCHANGED <<driver, current_proxy, current_user_agent, args, loc, result,
                   waitres, vres, elapsed, polls, cancelIsBase, browsers, calls>>
    /\ UNCHANGED nonCreatorVars

\* line 116: identity = custom_identity or await generate_identity()
GenerateIdentity(t) ==
    /\ pc[t] = "identity"
    /\ Enter(t, "identity")
    /\ IF args[t].custom_identity # None
       THEN /\ loc' = [loc EXCEPT ![t].identity = args[t].custom_identity]
            /\ Goto(t, "email")
            /\ UNCHANGED <<exc, errmsg, cancels>>
       ELSE \E o \in Identities \cup {None} \cup AwaitFaults(t) :
               IF o \in Identities \cup {None}
               THEN /\ loc' = [loc EXCEPT ![t].identity = o]
                    /\ Goto(t, "email")
                    /\ UNCHANGED <<exc, errmsg, cancels>>
               ELSE Throw(t, o, "generate_identity failed") /\ UNCHANGED loc
    /\ UNCHANGED <<driver, current_proxy, current_user_agent, args, result,
                   waitres, vres, elapsed, polls, cancelIsBase, browsers, calls>>
    /\ UNCHANGED nonCreatorVars

\* line 117: email = custom_email or await get_temporary_email()
GetTemporaryEmail(t) ==
    /\ pc[t] = "email"
    /\ Enter(t, "email")
    /\ IF args[t].custom_email # None
       THEN /\ loc' = [loc EXCEPT ![t].email = args[t].custom_email]
            /\ Goto(t, "proxy")
            /\ UNCHANGED <<exc, errmsg, cancels, calls>>
       ELSE /\ calls' = Append(calls, Call(t, "get_temporary_email", None))
            /\ \E o \in Emails \cup {None} \cup AwaitFaults(t) :
                  IF o \in Emails \cup {None}
                  THEN /\ loc' = [loc EXCEPT ![t].email = o]
                       /\ Goto(t, "proxy")
                       /\ UNCHANGED <<exc, errmsg, cancels>>
                  ELSE Throw(t, o, "get_temporary_email failed") /\ UNCHANGED loc
    /\ UNCHANGED <<driver, current_proxy, current_user_agent, args, result,
                   waitres, vres, elapsed, polls, cancelIsBase, browsers>>
    /\ UNCHANGED nonCreatorVars

\* line 118: proxy = await self.proxy_manager.get_proxy()
GetProxy(t) ==
    /\ pc[t] = "proxy"
    /\ Enter(t, "proxy")
    /\ calls' = Append(calls, Call(t, "get_proxy", None))
    /\ \E o \in Proxies \cup {None} \cup AwaitFaults(t) :
          IF o \in Proxies \cup {None}
          THEN /\ loc' = [loc EXCEPT ![t].proxy = o]
               /\ Goto(t, "user_agent")
               /\ UNCHANGED <<exc, errmsg, cancels>>
          ELSE Throw(t, o, "get_proxy failed") /\ UNCHANGED loc
    /\ UNCHANGED <<driver, current_proxy, current_user_agent, args, result,
                   waitres, vres, elapsed, polls, cancelIsBase, browsers>>
    /\ UNCHANGED nonCreatorVars

\* line 119: user_agent = await self.user_agent_manager.get_user_agent()
GetUserAgent(t) ==
    /\ pc[t] = "user_agent"
    /\ Enter(t, "user_agent")
    /\ \E o \in UserAgents \cup {None} \cup AwaitFaults(t) :
          IF o \in UserAgents \cup {None}
          THEN /\ loc' = [loc EXCEPT ![t].user_agent = o]
               /\ Goto(t, "check")
               /\ UNCHANGED <<exc, errmsg, cancels>>
          ELSE Throw(t, o, "get_user_agent failed") /\ UNCHANGED loc
    /\ UNCHANGED <<driver, current_proxy, current_user_agent, args, result,
                   waitres, vres, elapsed, polls, cancelIsBase, browsers, calls>>
    /\ UNCHANGED nonCreatorVars

\* lines 121-130: the email check and the first fields of the result. The
\* attribute reads identity.password and user_agent.string raise AttributeError
\* on None, after the assignments before them have been made.
CheckResources(t) ==
    /\ pc[t] = "check"
    /\ LET l == loc[t] IN
       IF l.email = None
       THEN /\ Throw(t, "raise", "Failed to get email address")
            /\ UNCHANGED result
       ELSE IF l.identity = None
       THEN /\ Throw(t, "raise", "'NoneType' object has no attribute 'password'")
            /\ result' = [result EXCEPT ![t].identity = l.identity, ![t].email = l.email]
       ELSE IF l.user_agent = None
       THEN /\ Throw(t, "raise", "'NoneType' object has no attribute 'string'")
            /\ result' = [result EXCEPT ![t].identity = l.identity, ![t].email = l.email,
                                        ![t].password = l.identity,
                                        ![t].proxy_used = ProxyUsed(l.proxy)]
       ELSE /\ result' = [result EXCEPT ![t].identity = l.identity, ![t].email = l.email,
                                        ![t].password = l.identity,
                                        ![t].proxy_used = ProxyUsed(l.proxy),
                                        ![t].user_agent_used = l.user_agent]
            /\ Goto(t, "setup_browser")
            /\ UNCHANGED <<exc, errmsg, cancels>>
    /\ UNCHANGED <<driver, current_proxy, current_user_agent, args, loc,
                   waitres, vres, elapsed, polls, steps, cancelIsBase, browsers, calls>>
    /\ UNCHANGED nonCreatorVars

\* _setup_browser, lines 183-224 and 231-233: building the options or
\* webdriver.Chrome(...) may raise, which is logged and re-raised; otherwise the
\* new driver, the proxy and the user agent are stored on the instance.
SetupBrowser(t) ==
    /\ pc[t] = "setup_browser"
    /\ Enter(t, "setup_browser")
    /\ \E o \in {"ok", "raise"} :
          IF o = "ok"
          THEN /\ driver' = t
               /\ browsers' = [browsers EXCEPT ![t] = "open"]
               /\ current_proxy' = loc[t].proxy
               /\ current_user_agent' = loc[t].user_agent
               /\ Goto(t, "stealth")
               /\ UNCHANGED <<exc, errmsg, cancels>>
          ELSE /\ Throw(t, o, "webdriver.Chrome failed")
               /\ UNCHANGED <<driver, browsers, current_proxy, current_user_agent>>
    /\ UNCHANGED <<args, loc, result, waitres, vres, elapsed, polls, cancelIsBase, calls>>
    /\ UNCHANGED nonCreatorVars

\* _execute_stealth_scripts, lines 235-290, called at line 227: every Exception
\* is logged and swallowed. At "stealth" the scripts of lines 239-252 run with
\* no await: one that raises ends the helper, otherwise the task suspends in
\* the await of line 254. A cancellation at that await that is not an Exception
\* passes through the handlers of lines 289 and 231.
ExecuteStealthScripts(t) ==
    /\ \/ /\ pc[t] = "stealth"
          /\ \E n \in {"stealth_254", "navigate"} : Goto(t, n)
          /\ UNCHANGED <<exc, errmsg, cancels>>
       \/ /\ pc[t] = "stealth_254"
          /\ \E o \in {"ok"} \cup AwaitFaults(t) :
                IF o = "ok" \/ IsCaught(o)
                THEN Goto(t, "navigate") /\ Delivered(t, o) /\ UNCHANGED <<exc, errmsg>>
                ELSE Throw(t, o, None)
    /\ UNCHANGED <<driver, current_proxy, current_user_agent, args, loc, result,
                   waitres, vres, elapsed, polls, steps, cancelIsBase, browsers, calls>>
    /\ UNCHANGED nonCreatorVars

\* The messages of the handlers of the three page helpers (lines 319-322,
\* 353-354 and 505-506).
NavigateFailed == "Failed to navigate to registration page"
PageLoadFailed == "Registration page failed to load"
FillFailed == "Failed to fill registration form"
SubmitFailed == "Failed to submit registration form"

\* What the handlers of a page helper make of an Exception raised anywhere in
\* its try block, msg being the message of its `except Exception` handler: in
\* _navigate_to_registration a selenium TimeoutException is re-raised by lines
\* 319-320 and every other Exception by lines 321-322, whichever line raised
\* it; the other helpers have the one handler.
Wrapped(msg) == IF msg = NavigateFailed THEN {NavigateFailed, PageLoadFailed} ELSE {msg}

\* The faults of what a page helper awaits at a label: an awaited call raises
\* or is cancelled, asyncio.sleep can only be cancelled, and at the label where
\* a helper is entered nothing is awaited.
AwaitOutcomes(t, awaited) ==
    IF awaited = "call" THEN AwaitFaults(t)
    ELSE IF awaited = "sleep" THEN AwaitFaults(t) \ {"raise"}
    ELSE {}

\* FormStep with the fault of the await swallowed: the workflow goes on with the
\* code after the await.
FormStep_FaultIgnored(t, at, step, awaited, nexts, after, msg) ==
    /\ pc[t] = at
    /\ steps' = [steps EXCEPT ![t] = IF step = None THEN @ ELSE Append(@, step)]
    /\ \E o \in {"ok"} \cup AwaitOutcomes(t, awaited) :
       \E n \in nexts \cup after :
          IF o = "ok"
          THEN IF n \in after
               THEN Throw(t, "raise", n)
               ELSE Goto(t, n) /\ UNCHANGED <<exc, errmsg, cancels>>
          ELSE /\ n \in nexts
               /\ Goto(t, n)
               /\ \E m \in (IF o = "raise" THEN Wrapped(msg) ELSE {msg}) :
                     errmsg' = [errmsg EXCEPT ![t] = m]
               /\ Delivered(t, o)
               /\ UNCHANGED exc
    /\ UNCHANGED <<driver, current_proxy, current_user_agent, args, loc, result,
                   waitres, vres, elapsed, polls, cancelIsBase, browsers, calls>>
    /\ UNCHANGED nonCreatorVars

\* The code of a page helper of lines 138-144 from the label `at` to the next
\* label. At the label where the helper is entered (step is its name) the task
\* is running and nothing is awaited; at every other label the task is
\* suspended in an await (`awaited` is "call" or "sleep"), and a fault of the
\* await leaves the helper wrapped in msg. The synchronous code that follows
\* either raises, wrapped in one of the messages of `after`, or reaches the
\* await of one of `nexts`. An Exception of the awaited call is wrapped by its
\* type (Wrapped); a cancellation caught as an Exception gets msg.
FormStep(t, at, step, awaited, nexts, after, msg) ==
    /\ pc[t] = at
    /\ steps' = [steps EXCEPT ![t] = IF step = None THEN @ ELSE Append(@, step)]
    /\ \E o \in {"ok"} \cup AwaitOutcomes(t, awaited) :
       \E n \in nexts \cup after :
          IF o = "ok"
          THEN IF n \in after
               THEN Throw(t, "raise", n)
               ELSE Goto(t, n) /\ UNCHANGED <<exc, errmsg, cancels>>
          ELSE \E m \in (IF o = "raise" THEN Wrapped(msg) ELSE {msg}) : Throw(t, o, m)
    /\ UNCHANGED <<driver, current_proxy, current_user_agent, args, loc, result,
                   waitres, vres, elapsed, polls, cancelIsBase, browsers, calls>>
    /\ UNCHANGED nonCreatorVars

\* _navigate_to_registration, lines 292-322, called at line 138. Its awaits:
\* inject_human_delays (298), sleep (299), then driver.get and wait.until
\* (302-306, a TimeoutException is re-raised by line 320, any other Exception
\* by line 322), simulate_reading (309), sleep (310), the page source read and
\* detect_honeypots (313).
NavigateToRegistration(t) ==
    \/ FormStep(t, "navigate", "navigate", "none", {"navigate_298"}, {}, NavigateFailed)
    \/ FormStep(t, "navigate_298", None, "call", {"navigate_299"}, {}, NavigateFailed)
    \/ FormStep(t, "navigate_299", None, "sleep", {"navigate_309"},
                {NavigateFailed, PageLoadFailed}, NavigateFailed)
    \/ FormStep(t, "navigate_309", None, "call", {"navigate_310"}, {}, NavigateFailed)
    \/ FormStep(t, "navigate_310", None, "sleep", {"navigate_313"},
                {NavigateFailed, PageLoadFailed}, NavigateFailed)
    \/ FormStep(t, "navigate_313", None, "call", {"fill_form"}, {}, NavigateFailed)

\* _execute_form_action, lines 356-400, awaited once per form action at line
\* 343: the task is suspended in one of the awaits of an action (lines 362,
\* 377 with 412-426, 387). Every Exception of an action is logged and swallowed
\* (lines 399-400, 429-430); a cancellation that is not an Exception passes
\* through these handlers and the one of line 353. After the await the task
\* reaches another await of the form actions, or the first await of
\* _fill_birthday (436) after its find_element, which may raise.
ExecuteFormAction(t) ==
    /\ pc[t] = "fill_form_action"
    /\ \E o \in {"ok"} \cup AwaitFaults(t) :
       \E n \in {"fill_form_action", "fill_form_436", FillFailed} :
          IF o = "ok" \/ IsCaught(o)
          THEN /\ Delivered(t, o)
               /\ IF n = FillFailed
                  THEN /\ pc' = [pc EXCEPT ![t] = "except"]
                       /\ errmsg' = [errmsg EXCEPT ![t] = n]
                       /\ exc' = [exc EXCEPT ![t] = "none"]
                  ELSE Goto(t, n) /\ UNCHANGED <<exc, errmsg>>
          ELSE Throw(t, o, None)
    /\ UNCHANGED <<driver, current_proxy, current_user_agent, args, loc, result,
                   waitres, vres, elapsed, polls, steps, cancelIsBase, browsers, calls>>
    /\ UNCHANGED nonCreatorVars

\* _fill_registration_form, lines 324-354, called at line 141. Its awaits:
\* simulate_form_interaction (339), the awaits of the form actions (343), the
\* three sleeps of _fill_birthday (436, 441, 446) and the sleep of
\* _select_gender (461); find_element, the selects and the click between them
\* may raise, which lines 450-451, 464-465 and 353-354 wrap.
FillRegistrationForm(t) ==
    \/ FormStep(t, "fill_form", "fill_form", "none", {"fill_form_339"}, {FillFailed},
                FillFailed)
    \/ FormStep(t, "fill_form_339", None, "call", {"fill_form_action", "fill_form_436"},
                {FillFailed}, FillFailed)
    \/ ExecuteFormAction(t)
    \/ FormStep(t, "fill_form_436", None, "sleep", {"fill_form_441"}, {FillFailed},
                FillFailed)
    \/ FormStep(t, "fill_form_441", None, "sleep", {"fill_form_446"}, {FillFailed},
                FillFailed)
    \/ FormStep(t, "fill_form_446", None, "sleep", {"fill_form_461"}, {FillFailed},
                FillFailed)
    \/ FormStep(t, "fill_form_461", None, "sleep", {"submit"}, {FillFailed}, FillFailed)

\* _submit_registration_form, lines 467-506, called at line 144: find_element
\* (473, may raise), the sleep of line 477, simulate_human_errors (480), the
\* sleep of line 482 when it answers true, then the click and wait.until
\* (485-503), whose faults line 506 wraps.
SubmitRegistrationForm(t) ==
    \/ FormStep(t, "submit", "submit", "none", {"submit_477"}, {SubmitFailed},
                SubmitFailed)
    \/ FormStep(t, "submit_477", None, "sleep", {"submit_480"}, {}, SubmitFailed)
    \/ FormStep(t, "submit_480", None, "call", {"submit_482", "verification"},
                {SubmitFailed}, SubmitFailed)
    \/ FormStep(t, "submit_482", None, "sleep", {"verification"}, {SubmitFailed},
                SubmitFailed)

\* _extract_account_id, lines 624-661: an id found in the page, or None; it
\* swallows every Exception.
ExtractAccountId == AccountIds \cup {None}

Fail(msg) == [NoVres EXCEPT !.error = msg]

\* _handle_verification, lines 510-516 and 543-555: reading the page raises
\* (caught at line 551), or the page asks for verification, or it does not.
HandleVerification(t) ==
    /\ pc[t] = "verification"
    /\ Enter(t, "verification")
    /\ \E o \in {"verify", "noverify", "raise"} :
          \/ /\ o = "verify"
             /\ Goto(t, "while")
             /\ elapsed' = [elapsed EXCEPT ![t] = 0]
             /\ UNCHANGED vres
          \/ /\ o = "noverify"
             /\ \E id \in ExtractAccountId :
                   vres' = [vres EXCEPT ![t] = [NoVres EXCEPT !.success = TRUE,
                                                              !.account_id = id]]
             /\ Goto(t, "set_result")
             /\ UNCHANGED elapsed
          \/ /\ o = "raise"
             /\ vres' = [vres EXCEPT ![t] = Fail("Verification handling failed")]
             /\ Goto(t, "set_result")
             /\ UNCHANGED elapsed
    /\ UNCHANGED <<driver, current_proxy, current_user_agent, args, loc, result, exc,
                   errmsg, waitres, polls, cancels, cancelIsBase, browsers, calls>>
    /\ UNCHANGED nonCreatorVars

\* WhileCheck with <= for the < of line 565.
WhileCheck_Inclusive(t) ==
    /\ pc[t] = "while"
    /\ IF elapsed[t] <= MaxWaitTime
       THEN Goto(t, "poll") /\ UNCHANGED waitres
       ELSE /\ waitres' = [waitres EXCEPT ![t] = Fail("Verification email timeout")]
            /\ Goto(t, "after_wait")
    /\ UNCHANGED <<driver, current_proxy, current_user_agent, args, loc, result, exc,
                   errmsg, vres, elapsed, polls, steps, cancels, cancelIsBase,
                   browsers, calls>>
    /\ UNCHANGED nonCreatorVars

\* _wait_for_verification_email, lines 565 and 581-584: the loop condition and
\* the result after the loop.
WhileCheck(t) ==
    /\ pc[t] = "while"
    /\ IF elapsed[t] < MaxWaitTime
       THEN Goto(t, "poll") /\ UNCHANGED waitres
       ELSE /\ waitres' = [waitres EXCEPT ![t] = Fail("Verification email timeout")]
            /\ Goto(t, "after_wait")
    /\ UNCHANGED <<driver, current_proxy, current_user_agent, args, loc, result, exc,
                   errmsg, vres, elapsed, polls, steps, cancels, cancelIsBase,
                   browsers, calls>>
    /\ UNCHANGED nonCreatorVars

\* What the handler of line 586 does with a fault raised inside the loop.
PollFault(t, o) ==
    /\ Delivered(t, o)
    /\ IF IsCaught(o)
       THEN /\ waitres' = [waitres EXCEPT ![t] = Fail("Verification email check failed")]
            /\ Goto(t, "after_wait")
            /\ UNCHANGED <<exc, errmsg>>
       ELSE /\ pc' = [pc EXCEPT ![t] = "finally"]
            /\ exc' = [exc EXCEPT ![t] = "CancelledError"]
            /\ UNCHANGED <<waitres, errmsg>>

\* lines 567-576: one poll of the email source; a verification email with a
\* link ends the loop with success.
Poll(t) ==
    /\ pc[t] = "poll"
    /\ polls' = [polls EXCEPT ![t] = @ + 1]
    /\ \E d \in {0, MaxPollTime} : elapsed' = [elapsed EXCEPT ![t] = @ + d]
    /\ \E o \in {"link", "nolink"} \cup AwaitFaults(t) :
          \/ /\ o = "link"
             /\ waitres' = [waitres EXCEPT ![t] = [NoVres EXCEPT !.success = TRUE,
                                                                !.link = TRUE]]
             /\ Goto(t, "after_wait")
             /\ UNCHANGED <<exc, errmsg, cancels>>
          \/ /\ o = "nolink"
             /\ Goto(t, "sleep")
             /\ UNCHANGED <<waitres, exc, errmsg, cancels>>
          \/ /\ o \in {"raise", "cancel"}
             /\ PollFault(t, o)
    /\ UNCHANGED <<driver, current_proxy, current_user_agent, args, loc, result,
                   vres, steps, cancelIsBase, browsers, calls>>
    /\ UNCHANGED nonCreatorVars

\* line 579: await asyncio.sleep(check_interval)
PollSleep(t) ==
    /\ pc[t] = "sleep"
    /\ \E o \in {"ok"} \cup (AwaitFaults(t) \ {"raise"}) :
          IF o = "ok"
          THEN /\ elapsed' = [elapsed EXCEPT ![t] = @ + CheckInterval]
               /\ Goto(t, "while")
               /\ UNCHANGED <<waitres, exc, errmsg, cancels>>
          ELSE PollFault(t, o) /\ UNCHANGED elapsed
    /\ UNCHANGED <<driver, current_proxy, current_user_agent, args, loc, result,
                   vres, polls, steps, cancelIsBase, browsers, calls>>
    /\ UNCHANGED nonCreatorVars

\* AfterWait without the test of line 522: the link is opened whatever the wait
\* returned.
AfterWait_AlwaysOpens(t) ==
    /\ pc[t] = "after_wait"
    /\ Goto(t, "open_link") /\ UNCHANGED vres
    /\ UNCHANGED <<driver, current_proxy, current_user_agent, args, loc, result, exc,
                   errmsg, waitres, elapsed, polls, steps, cancels, cancelIsBase,
                   browsers, calls>>
    /\ UNCHANGED nonCreatorVars

\* _handle_verification, lines 522 and 538-542: the result of the wait decides.
AfterWait(t) ==
    /\ pc[t] = "after_wait"
    /\ IF waitres[t].success
       THEN Goto(t, "open_link") /\ UNCHANGED vres
       ELSE /\ vres' = [vres EXCEPT ![t] = Fail("Email verification failed")]
            /\ Goto(t, "set_result")
    /\ UNCHANGED <<driver, current_proxy, current_user_agent, args, loc, result, exc,
                   errmsg, waitres, elapsed, polls, steps, cancels, cancelIsBase,
                   browsers, calls>>
    /\ UNCHANGED nonCreatorVars

\* lines 524-537: at "open_link" driver.get (line 527) runs with no await, and
\* the task then suspends in the sleep of line 530; after it the account id is
\* extracted and success reported. A fault that is an Exception is turned into
\* a failure result at line 551.
OpenLink(t) ==
    /\ \/ /\ pc[t] = "open_link"
          /\ \E o \in {"ok", "raise"} :
                IF o = "ok"
                THEN Goto(t, "open_link_530") /\ UNCHANGED vres
                ELSE /\ vres' = [vres EXCEPT ![t] = Fail("Verification handling failed")]
                     /\ Goto(t, "set_result")
          /\ UNCHANGED <<exc, cancels>>
       \/ /\ pc[t] = "open_link_530"
          /\ \E o \in {"ok"} \cup (AwaitFaults(t) \ {"raise"}) :
                /\ Delivered(t, o)
                /\ IF o = "ok"
                   THEN /\ \E id \in ExtractAccountId :
                              vres' = [vres EXCEPT ![t] =
                                          [NoVres EXCEPT !.success = TRUE,
                                                         !.verification_required = TRUE,
                                                         !.verification_method = "email",
                                                         !.account_id = id]]
                        /\ Goto(t, "set_result")
                        /\ UNCHANGED exc
                   ELSE IF IsCaught(o)
                   THEN /\ vres' = [vres EXCEPT ![t] = Fail("Verification handling failed")]
                        /\ Goto(t, "set_result")
                        /\ UNCHANGED exc
                   ELSE /\ pc' = [pc EXCEPT ![t] = "finally"]
                        /\ exc' = [exc EXCEPT ![t] = "CancelledError"]
                        /\ UNCHANGED vres
    /\ UNCHANGED <<driver, current_proxy, current_user_agent, args, loc, result,
                   errmsg, waitres, elapsed, polls, steps, cancelIsBase, browsers, calls>>
    /\ UNCHANGED nonCreatorVars

\* SetResult without line 158: a failed verification leaves the status as it was.
SetResult_NoFailedStatus(t) ==
    /\ pc[t] = "set_result"
    /\ IF vres[t].success
       THEN result' = [result EXCEPT ![t].success = TRUE,
                                     ![t].status = "completed",
                                     ![t].account_id = vres[t].account_id,
                                     ![t].verification_required = vres[t].verification_required,
                                     ![t].verification_method = vres[t].verification_method]
       ELSE result' = [result EXCEPT ![t].error_message = vres[t].error]
    /\ Goto(t, "finally")
    /\ UNCHANGED <<driver, current_proxy, current_user_agent, args, loc, exc, errmsg,
                   waitres, vres, elapsed, polls, steps, cancels, cancelIsBase,
                   browsers, calls>>
    /\ UNCHANGED nonCreatorVars

\* create_account, lines 149-160: the verification result becomes the result.
SetResult(t) ==
    /\ pc[t] = "set_result"
    /\ IF vres[t].success
       THEN result' = [result EXCEPT ![t].success = TRUE,
                                     ![t].status = "completed",
                                     ![t].account_id = vres[t].account_id,
                                     ![t].verification_required = vres[t].verification_required,
                                     ![t].verification_method = vres[t].verification_method]
       ELSE result' = [result EXCEPT ![t].status = "failed",
                                     ![t].error_message = vres[t].error]
    /\ Goto(t, "finally")
    /\ UNCHANGED <<driver, current_proxy, current_user_agent, args, loc, exc, errmsg,
                   waitres, vres, elapsed, polls, steps, cancels, cancelIsBase,
                   browsers, calls>>
    /\ UNCHANGED nonCreatorVars

\* lines 162-168: the handler records the failure and looks at self.current_proxy.
ExceptHandler(t) ==
    /\ pc[t] = "except"
    /\ result' = [result EXCEPT ![t].status = "failed", ![t].error_message = errmsg[t]]
    /\ Goto(t, IF current_proxy # None THEN "report" ELSE "finally")
    /\ UNCHANGED <<driver, current_proxy, current_user_agent, args, loc, exc, errmsg,
                   waitres, vres, elapsed, polls, steps, cancels, cancelIsBase,
                   browsers, calls>>
    /\ UNCHANGED nonCreatorVars

\* line 169: await report_proxy_failure(self.current_proxy); a fault here is
\* raised inside the handler, so it propagates after the finally block.
ReportProxyFailure(t) ==
    /\ pc[t] = "report"
    /\ calls' = Append(calls, Call(t, "report_proxy_failure", current_proxy))
    /\ \E o \in {"ok"} \cup AwaitFaults(t) :
          /\ Delivered(t, o)
          /\ exc' = [exc EXCEPT ![t] = IF o = "ok" THEN "none"
                                       ELSE IF o = "cancel" THEN "CancelledError"
                                       ELSE "Exception"]
    /\ Goto(t, "finally")
    /\ UNCHANGED <<driver, current_proxy, current_user_agent, args, loc, result, errmsg,
                   waitres, vres, elapsed, polls, steps, cancelIsBase, browsers>>
    /\ UNCHANGED nonCreatorVars

\* _cleanup_browser, lines 663-674, called at line 173: quit() is called on
\* self.driver when there is one; quit() raising is logged and leaves the three
\* fields as they were.
CleanupBrowser(t) ==
    /\ pc[t] = "finally"
    /\ calls' = IF driver # NoDriver THEN Append(calls, Call(t, "quit", driver)) ELSE calls
    /\ \E o \in {"ok"} \cup (IF driver # NoDriver THEN {"raise"} ELSE {}) :
          IF o = "ok"
          THEN /\ browsers' = IF driver # NoDriver
                              THEN [browsers EXCEPT ![driver] = "quit"] ELSE browsers
               /\ driver' = NoDriver
               /\ current_proxy' = None
               /\ current_user_agent' = None
          ELSE UNCHANGED <<browsers, driver, current_proxy, current_user_agent>>
    /\ Goto(t, "release_check")
    /\ UNCHANGED <<args, loc, result, exc, errmsg, waitres, vres, elapsed, polls,
                   steps, cancels, cancelIsBase>>
    /\ UNCHANGED nonCreatorVars

\* line 176: `if email and not result.success`; reading the local email before
\* line 117 has bound it raises UnboundLocalError out of the finally block.
ReleaseCheck(t) ==
    /\ pc[t] = "release_check"
    /\ IF loc[t].email = Unbound
       THEN /\ exc' = [exc EXCEPT ![t] = "UnboundLocalError"]
            /\ Goto(t, "exit")
       ELSE /\ Goto(t, IF loc[t].email # None /\ ~result[t].success
                       THEN "release_email" ELSE "exit")
            /\ UNCHANGED exc
    /\ UNCHANGED <<driver, current_proxy, current_user_agent, args, loc, result, errmsg,
                   waitres, vres, elapsed, polls, steps, cancels, cancelIsBase,
                   browsers, calls>>
    /\ UNCHANGED nonCreatorVars

\* line 177: await self.email_manager.release_email(email)
ReleaseEmail(t) ==
    /\ pc[t] = "release_email"
    /\ calls' = Append(calls, Call(t, "release_email", loc[t].email))
    /\ \E o \in {"ok"} \cup AwaitFaults(t) :
          /\ Delivered(t, o)
          /\ exc' = [exc EXCEPT ![t] = IF o = "ok" THEN @
                                       ELSE IF o = "cancel" THEN "CancelledError"
                                       ELSE "Exception"]
    /\ Goto(t, "exit")
    /\ UNCHANGED <<driver, current_proxy, current_user_agent, args, loc, result, errmsg,
                   waitres, vres, elapsed, polls, steps, cancelIsBase, browsers>>
    /\ UNCHANGED nonCreatorVars

\* line 179 and the end of the try statement: the result is returned unless an
\* exception is propagating, which then leaves create_account.
Exit(t) ==
    /\ pc[t] = "exit"
    /\ Goto(t, IF exc[t] = "none" THEN "returned" ELSE "raised")
    /\ UNCHANGED <<driver, current_proxy, current_user_agent, args, loc, result, exc,
                   errmsg, waitres, vres, elapsed, polls, steps, cancels, cancelIsBase,
                   browsers, calls>>
    /\ UNCHANGED nonCreatorVars

\* =================================================================== engine
\* Names bound in the module namespace of engine.py (its imports, lines 5-18,
\* and its classes): a name outside this set raises NameError when it is read.
EngineModuleNames == {"asyncio", "time", "ProxyManager", "UserAgentManager",
                      "EmailManager", "IdentityManager", "SessionManager",
                      "HumanBehaviorSimulator", "AntiDetectionSystem", "LoggerFactory",
                      "EngineStatus", "AccountResult", "EngineStatistics", "FACBTEngine"}

\* Attributes FACBTEngine.__init__ assigns (lines 59-80); no other method
\* assigns a new one, so reading any other attribute raises AttributeError.
EngineAttributes == {"config", "logger", "status", "start_time", "statistics",
                     "creation_times", "proxy_manager", "user_agent_manager",
                     "email_manager", "identity_manager", "session_manager",
                     "behavior_simulator", "anti_detection", "shutdown_event"}

\* The components in the order _initialize_managers and _initialize_services
\* construct them (lines 110-146), and those whose initialize() is awaited.
InitOrder == <<"proxy_manager", "user_agent_manager", "email_manager",
               "identity_manager", "session_manager", "behavior_simulator",
               "anti_detection">>
HasInitialize == {"proxy_manager", "user_agent_manager", "email_manager",
                  "anti_detection"}

Sessions == {"s1"}

ECall(op, arg) == [by |-> statistics.total_attempts, op |-> op, arg |-> arg]

EAwaitFaults == {"raise"} \cup (IF ecancels < MaxCancels THEN {"cancel"} ELSE {})

EDelivered(o) == ecancels' = ecancels + (IF o = "cancel" THEN 1 ELSE 0)

\* AccountResult(success=False, error=...) (engine.py:30-40, 263-267, 274-278)
FailedResult(err) == [success |-> FALSE, error |-> err, account_id |-> None,
                      email |-> None, proxy_used |-> None]

\* A caller starts one of the engine's coroutines.
CallInitialize ==
    /\ epc = "idle"
    /\ epc' = "init_begin"
    /\ eexc' = "none" /\ ecancels' = 0 /\ einit' = 1
    /\ UNCHANGED <<status, shutdown_event, components, statistics, eloc, eresult, ecalls>>
    /\ UNCHANGED nonEngineVars

\* What the try statement of initialize (lines 84-104) does with a fault.
InitFault(o) ==
    /\ EDelivered(o)
    /\ IF IsCaught(o)
       THEN epc' = "init_except" /\ UNCHANGED eexc
       ELSE epc' = "init_raised" /\ eexc' = "CancelledError"

\* initialize, lines 85-86, and _initialize_managers up to its first await:
\* ProxyManager(...) is constructed and stored (line 112) before the coroutine
\* suspends in its initialize() (line 113).
InitBegin ==
    /\ epc = "init_begin"
    /\ status' = "starting"
    /\ \E o \in {"ok", "ctor_raise"} :
          IF o = "ok"
          THEN /\ components' = components \cup {InitOrder[1]}
               /\ epc' = "init_component"
               /\ UNCHANGED <<eexc, ecancels>>
          ELSE /\ InitFault("raise")
               /\ UNCHANGED components
    /\ UNCHANGED <<shutdown_event, statistics, einit, eloc, eresult, ecalls>>
    /\ UNCHANGED nonEngineVars

\* _initialize_managers and _initialize_services, lines 106-148, at component
\* einit. A component with initialize() has been constructed and stored, and the
\* coroutine is suspended in its initialize() (lines 113, 118, 123, 145); when
\* that returns, the code runs on: a next component with initialize() is
\* constructed and stored (lines 117, 122, 144) up to the await of its
\* initialize(), and after the last component the health checks are built and
\* the first is awaited (lines 153-165). A component without initialize() is
\* constructed and stored with no await (lines 127, 131, 139).
InitComponent ==
    /\ epc = "init_component"
    /\ LET c == InitOrder[einit]
           last == einit = Len(InitOrder)
           n == InitOrder[IF last THEN einit ELSE einit + 1]
       IN
       \E o \in IF c \in HasInitialize THEN {"ok"} \cup EAwaitFaults ELSE {"ok", "ctor_raise"} :
       \E o2 \in IF ~last /\ n \in HasInitialize THEN {"ok", "ctor_raise"} ELSE {"ok"} :
          IF o # "ok"
          THEN /\ InitFault(IF o = "ctor_raise" THEN "raise" ELSE o)
               /\ UNCHANGED <<components, einit>>
          ELSE /\ einit' = IF last THEN einit ELSE einit + 1
               /\ components' = components \cup {c}
                                   \cup (IF ~last /\ n \in HasInitialize /\ o2 = "ok"
                                         THEN {n} ELSE {})
               /\ IF o2 = "ok"
                  THEN /\ epc' = IF last THEN "init_health" ELSE "init_component"
                       /\ UNCHANGED <<eexc, ecancels>>
                  ELSE InitFault("raise")
    /\ UNCHANGED <<status, shutdown_event, statistics, eloc, eresult, ecalls>>
    /\ UNCHANGED nonEngineVars

\* The awaits of the loop of _run_health_checks (lines 163-169), one per check
\* of the list of lines 153-160, in its order.
HealthCheckLabels == <<"init_health", "init_health_user_agent", "init_health_email",
                       "init_health_identity", "init_health_behavior",
                       "init_health_anti_detection">>

\* _run_health_checks, lines 150-171: the coroutine is suspended in the await
\* of one check (line 165); its result and its Exception are only logged, and
\* the loop goes on to the await of the next check.
RunHealthChecks ==
    /\ \E i \in 1..Len(HealthCheckLabels) :
          /\ epc = HealthCheckLabels[i]
          /\ \E o \in {"ok"} \cup EAwaitFaults :
                IF o = "ok" \/ IsCaught(o)
                THEN /\ epc' = IF i < Len(HealthCheckLabels)
                               THEN HealthCheckLabels[i + 1] ELSE "init_end"
                     /\ EDelivered(o)
                     /\ UNCHANGED eexc
                ELSE InitFault(o)
    /\ UNCHANGED <<status, shutdown_event, components, statistics, einit, eloc,
                   eresult, ecalls>>
    /\ UNCHANGED nonEngineVars

\* InitEnd without line 97: the status stays STARTING.
InitEnd_StatusNotSet ==
    /\ epc = "init_end"
    /\ epc' = "init_returned"
    /\ UNCHANGED <<status, shutdown_event, components, statistics, einit, eloc, eresult,
                   eexc, ecancels, ecalls>>
    /\ UNCHANGED nonEngineVars

\* initialize, lines 97-99
InitEnd ==
    /\ epc = "init_end"
    /\ status' = "running"
    /\ epc' = "init_returned"
    /\ UNCHANGED <<shutdown_event, components, statistics, einit, eloc, eresult, eexc,
                   ecancels, ecalls>>
    /\ UNCHANGED nonEngineVars

\* InitExcept without the raise of line 104: initialize returns after logging.
InitExcept_Swallowed ==
    /\ epc = "init_except"
    /\ status' = "error"
    /\ epc' = "init_returned"
    /\ UNCHANGED <<shutdown_event, components, statistics, einit, eloc, eresult, eexc,
                   ecancels, ecalls>>
    /\ UNCHANGED nonEngineVars

\* initialize, lines 101-104
InitExcept ==
    /\ epc = "init_except"
    /\ status' = "error"
    /\ eexc' = "Exception"
    /\ epc' = "init_raised"
    /\ UNCHANGED <<shutdown_event, components, statistics, einit, eloc, eresult,
                   ecancels, ecalls>>
    /\ UNCHANGED nonEngineVars

\* No engine coroutine is running: a caller may start the next one.
Quiescent == epc \in {"init_returned", "init_raised", "ca_returned", "ca_raised",
                      "stop_returned"}

CallCreateAccount ==
    /\ Quiescent
    /\ statistics.total_attempts < MaxAttempts
    /\ epc' = "ca_begin"
    /\ eexc' = "none" /\ ecancels' = 0 /\ eloc' = NoLocals /\ eresult' = None
    /\ UNCHANGED <<status, shutdown_event, components, statistics, einit, ecalls>>
    /\ UNCHANGED nonEngineVars

\* create_account, lines 203-204
CreateAccountBegin ==
    /\ epc = "ca_begin"
    /\ statistics' = [statistics EXCEPT !.total_attempts = @ + 1]
    /\ epc' = "ca_identity"
    /\ UNCHANGED <<status, shutdown_event, components, einit, eloc, eresult, eexc,
                   ecancels, ecalls>>
    /\ UNCHANGED nonEngineVars

\* The handler of lines 269-278, which runs without suspending: the failure is
\* counted and becomes the return value, and the finally block follows.
EHandle(msg) ==
    /\ statistics' = [statistics EXCEPT !.failed_creations = @ + 1]
    /\ eresult' = FailedResult(msg)
    /\ epc' = "ca_cleanup_session"
    /\ UNCHANGED eexc

\* A fault o raised inside the try block of create_account (lines 206-267).
ETryFault(o, msg) ==
    /\ EDelivered(o)
    /\ IF IsCaught(o)
       THEN EHandle(msg)
       ELSE /\ eexc' = "CancelledError"
            /\ epc' = "ca_cleanup_session"
            /\ UNCHANGED <<statistics, eresult>>

\* One acquisition of lines 210-229: the manager field may still be None, the
\* call may fail, and the log line after it reads an attribute of the value it
\* returned (all but the session), which raises on None with the local bound.
EAcquire(at, comp, var, values, logged, next) ==
    /\ epc = at
    /\ IF comp \notin components
       THEN ETryFault("raise", "Account creation error: 'NoneType' object has no attribute")
            /\ UNCHANGED eloc
       ELSE \E o \in values \cup {None} \cup EAwaitFaults :
               IF o \in values \/ (o = None /\ ~logged)
               THEN /\ eloc' = [eloc EXCEPT ![var] = o]
                    /\ epc' = next
                    /\ UNCHANGED <<statistics, eresult, eexc, ecancels>>
               ELSE IF o = None
               THEN /\ eloc' = [eloc EXCEPT ![var] = None]
                    /\ ETryFault("raise", "Account creation error: 'NoneType' object has no attribute")
               ELSE /\ ETryFault(o, "Account creation error: acquisition failed")
                    /\ UNCHANGED eloc
    /\ UNCHANGED <<status, shutdown_event, components, einit, ecalls>>
    /\ UNCHANGED nonEngineVars

\* lines 210-211
EGenerateIdentity ==
    EAcquire("ca_identity", "identity_manager", "identity", Identities, TRUE, "ca_email")

\* lines 214-215
ECreateEmail ==
    EAcquire("ca_email", "email_manager", "email", Emails, TRUE, "ca_proxy")

\* lines 218-219
EGetProxy ==
    EAcquire("ca_proxy", "proxy_manager", "proxy", Proxies, TRUE, "ca_user_agent")

\* lines 222-223
EGetUserAgent ==
    EAcquire("ca_user_agent", "user_agent_manager", "user_agent", UserAgents, TRUE,
             "ca_session")

\* lines 226-229
ECreateSession ==
    EAcquire("ca_session", "session_manager", "session", Sessions, FALSE,
             "ca_state_machine")

\* lines 232-267: the workflow is built from the name AccountCreationStateMachine
\* and from self.facebook_service, and then executed.
EStateMachine ==
    /\ epc = "ca_state_machine"
    /\ IF "AccountCreationStateMachine" \notin EngineModuleNames
       THEN /\ ETryFault("raise", "Account creation error: name 'AccountCreationStateMachine' is not defined")
            /\ UNCHANGED ecalls
       ELSE IF "facebook_service" \notin EngineAttributes
       THEN /\ ETryFault("raise", "Account creation error: 'FACBTEngine' object has no attribute 'facebook_service'")
            /\ UNCHANGED ecalls
       ELSE /\ ecalls' = Append(ecalls, ECall("execute", eloc.session))
            /\ \E o \in {"success", "failure"} \cup EAwaitFaults :
                  IF o = "success"
                  THEN /\ statistics' = [statistics EXCEPT !.successful_creations = @ + 1]
                       /\ \E id \in AccountIds \cup {None} :
                             eresult' = [success |-> TRUE, error |-> None,
                                         account_id |-> id, email |-> eloc.email,
                                         proxy_used |-> ProxyUsed(eloc.proxy)]
                       /\ epc' = "ca_cleanup_session"
                       /\ UNCHANGED <<eexc, ecancels>>
                  ELSE IF o = "failure"
                  THEN /\ statistics' = [statistics EXCEPT !.failed_creations = @ + 1]
                       /\ eresult' = FailedResult("workflow failed")
                       /\ epc' = "ca_cleanup_session"
                       /\ UNCHANGED <<eexc, ecancels>>
                  ELSE ETryFault(o, "Account creation error: workflow raised")
    /\ UNCHANGED <<status, shutdown_event, components, einit, eloc>>
    /\ UNCHANGED nonEngineVars

\* ECleanup without the try statement of lines 281-289 around the cleanup
\* calls: an Exception raised by a cleanup call leaves create_account.
ECleanup_Unguarded(at, var, op, next) ==
    /\ epc = at
    /\ IF eloc[var] = Unbound
       THEN epc' = next /\ UNCHANGED <<ecalls, eexc, ecancels>>
       ELSE /\ ecalls' = Append(ecalls, ECall(op, eloc[var]))
            /\ \E o \in {"ok"} \cup EAwaitFaults :
                  /\ EDelivered(o)
                  /\ IF o = "ok"
                     THEN epc' = next /\ UNCHANGED eexc
                     ELSE IF IsCaught(o)
                     THEN epc' = "ca_exit" /\ eexc' = "Exception"
                     ELSE epc' = "ca_exit" /\ eexc' = "CancelledError"
    /\ UNCHANGED <<status, shutdown_event, components, statistics, einit, eloc, eresult>>
    /\ UNCHANGED nonEngineVars

\* One cleanup call of the finally block, lines 281-289: made when the local is
\* bound; the first one to raise an Exception ends the block at line 288.
ECleanup(at, var, op, next) ==
    /\ epc = at
    /\ IF eloc[var] = Unbound
       THEN epc' = next /\ UNCHANGED <<ecalls, eexc, ecancels>>
       ELSE /\ ecalls' = Append(ecalls, ECall(op, eloc[var]))
            /\ \E o \in {"ok"} \cup EAwaitFaults :
                  /\ EDelivered(o)
                  /\ IF o = "ok"
                     THEN epc' = next /\ UNCHANGED eexc
                     ELSE IF IsCaught(o)
                     THEN epc' = "ca_exit" /\ UNCHANGED eexc
                     ELSE epc' = "ca_exit" /\ eexc' = "CancelledError"
    /\ UNCHANGED <<status, shutdown_event, components, statistics, einit, eloc, eresult>>
    /\ UNCHANGED nonEngineVars

\* lines 282-283
ECleanupSession ==
    ECleanup("ca_cleanup_session", "session", "cleanup_session", "ca_release_proxy")

\* lines 284-285
EReleaseProxy ==
    ECleanup("ca_release_proxy", "proxy", "release_proxy", "ca_cleanup_email")

\* lines 286-287
ECleanupEmail ==
    ECleanup("ca_cleanup_email", "email", "cleanup_email", "ca_exit")

\* The end of the try statement: the pending return value is returned unless
\* an exception is propagating.
EExit ==
    /\ epc = "ca_exit"
    /\ epc' = IF eexc = "none" THEN "ca_returned" ELSE "ca_raised"
    /\ UNCHANGED <<status, shutdown_event, components, statistics, einit, eloc,
                   eresult, eexc, ecancels, ecalls>>
    /\ UNCHANGED nonEngineVars

CallStop ==
    /\ Quiescent \/ epc = "idle"
    /\ epc' = "stop_begin"
    /\ eexc' = "none" /\ ecancels' = 0
    /\ UNCHANGED <<status, shutdown_event, components, statistics, einit, eloc,
                   eresult, ecalls>>
    /\ UNCHANGED nonEngineVars

\* stop, lines 294-295
StopBegin ==
    /\ epc = "stop_begin"
    /\ status' = "stopping"
    /\ epc' = "stop_signal"
    /\ UNCHANGED <<shutdown_event, components, statistics, einit, eloc, eresult, eexc,
                   ecancels, ecalls>>
    /\ UNCHANGED nonEngineVars

\* stop, line 298
StopSignal ==
    /\ epc = "stop_signal"
    /\ shutdown_event' = TRUE
    /\ epc' = "stop_services"
    /\ UNCHANGED <<status, components, statistics, einit, eloc, eresult, eexc,
                   ecancels, ecalls>>
    /\ UNCHANGED nonEngineVars

\* The stop() calls of lines 303-308, in order, on the managers that are set.
StopCalls ==
    SelectSeq(<<"session_manager", "email_manager", "proxy_manager">>,
              LAMBDA m : m \in components)

RECURSIVE StopLog(_)
StopLog(ms) == IF ms = <<>> THEN <<>>
               ELSE <<ECall("stop", Head(ms))>> \o StopLog(Tail(ms))

\* stop, lines 301-315: reading self.facebook_service comes first; the manager
\* stops, self.thread_manager and status = STOPPED follow.
StopServices ==
    /\ epc = "stop_services"
    /\ IF "facebook_service" \notin EngineAttributes
       THEN epc' = "stop_except" /\ UNCHANGED <<status, ecalls>>
       ELSE /\ ecalls' = ecalls \o StopLog(StopCalls)
            /\ IF "thread_manager" \notin EngineAttributes
               THEN epc' = "stop_except" /\ UNCHANGED status
               ELSE epc' = "stop_returned" /\ status' = "stopped"
    /\ UNCHANGED <<shutdown_event, components, statistics, einit, eloc, eresult, eexc,
                   ecancels>>
    /\ UNCHANGED nonEngineVars

\* stop, lines 317-319: the Exception is logged, not raised.
StopExcept ==
    /\ epc = "stop_except"
    /\ status' = "error"
    /\ epc' = "stop_returned"
    /\ UNCHANGED <<shutdown_event, components, statistics, einit, eloc, eresult, eexc,
                   ecancels, ecalls>>
    /\ UNCHANGED nonEngineVars

EngineBody ==
    \/ InitBegin
    \/ InitComponent
    \/ RunHealthChecks
    \/ InitEnd
    \/ InitExcept
    \/ CreateAccountBegin
    \/ EGenerateIdentity
    \/ ECreateEmail
    \/ EGetProxy
    \/ EGetUserAgent
    \/ ECreateSession
    \/ EStateMachine
    \/ ECleanupSession
    \/ EReleaseProxy
    \/ ECleanupEmail
    \/ EExit
    \/ StopBegin
    \/ StopSignal
    \/ StopServices
    \/ StopExcept

EngineStep ==
    \/ CallInitialize
    \/ CallCreateAccount
    \/ CallStop
    \/ EngineBody

\* ============================================================= health_check
\* HealthCheckStep with the `return False` of the last check (line 691) lost.
HealthCheckStep_LastIgnored ==
    /\ hpc = "check"
    /\ LET o == hin[hidx] IN
       IF o = "true" \/ (o = "false" /\ hidx = Len(Dependencies))
       THEN IF hidx < Len(Dependencies)
            THEN hidx' = hidx + 1 /\ UNCHANGED <<hpc, hres>>
            ELSE hres' = TRUE /\ hpc' = "returned" /\ UNCHANGED hidx
       ELSE IF o = "false" \/ IsCaught(o)
       THEN hres' = FALSE /\ hpc' = "returned" /\ UNCHANGED hidx
       ELSE hpc' = "raised" /\ UNCHANGED <<hidx, hres>>
    /\ UNCHANGED hin
    /\ UNCHANGED <<creatorVars, engineVars, appVars>>

\* FacebookAccountCreator.health_check, account_creator.py:676-698: the six
\* dependencies are asked in order; the first that is not true ends the check
\* with False, an Exception is caught at line 696 and gives False too.
HealthCheckStep ==
    /\ hpc = "check"
    /\ LET o == hin[hidx] IN
       IF o = "true"
       THEN IF hidx < Len(Dependencies)
            THEN hidx' = hidx + 1 /\ UNCHANGED <<hpc, hres>>
            ELSE hres' = TRUE /\ hpc' = "returned" /\ UNCHANGED hidx
       ELSE IF o = "false" \/ IsCaught(o)
       THEN hres' = FALSE /\ hpc' = "returned" /\ UNCHANGED hidx
       ELSE hpc' = "raised" /\ UNCHANGED <<hidx, hres>>
    /\ UNCHANGED hin
    /\ UNCHANGED <<creatorVars, engineVars, appVars>>

\* ================================================================== main
\* The coroutine of the engine that main is awaiting is suspended at an await.
EngineSuspended ==
    \/ epc = "init_component" /\ InitOrder[einit] \in HasInitialize
    \/ epc \in {HealthCheckLabels[i] : i \in 1..Len(HealthCheckLabels)}
    \/ epc \in {"ca_identity", "ca_email", "ca_proxy", "ca_user_agent", "ca_session"}
    \/ epc = "ca_cleanup_session" /\ eloc.session # Unbound
    \/ epc = "ca_release_proxy" /\ eloc.proxy # Unbound
    \/ epc = "ca_cleanup_email" /\ eloc.email # Unbound

\* main, lines 199-205: test mode only sets an environment variable; the
\* application object is created and the signal handlers are installed.
MainStart ==
    /\ apc = "m_start"
    /\ apc' = "a_init"
    /\ UNCHANGED <<opts, app_engine, app_shutdown, loop_i, success_count, sigs, alog, mexit>>
    /\ UNCHANGED <<creatorVars, engineVars, healthVars>>

\* FACBTApplication.initialize, lines 49-58, called at main line 209: loading the
\* configuration may raise, which initialize answers with False (lines 63-65)
\* and main with sys.exit(1); otherwise the engine is created and its
\* initialize() awaited.
AppInitialize ==
    /\ apc = "a_init"
    /\ \E o \in {"ok", "raise"} :
          IF o = "raise"
          THEN /\ apc' = "m_finally" /\ mexit' = "SystemExit"
               /\ UNCHANGED <<app_engine, epc, eexc, ecancels, einit>>
          ELSE /\ app_engine' = TRUE
               /\ apc' = "a_init_wait"
               /\ epc' = "init_begin" /\ eexc' = "none" /\ ecancels' = 0 /\ einit' = 1
               /\ UNCHANGED mexit
    /\ UNCHANGED <<opts, app_shutdown, loop_i, success_count, sigs, alog>>
    /\ UNCHANGED <<status, shutdown_event, components, statistics, eloc, eresult, ecalls>>
    /\ UNCHANGED <<creatorVars, healthVars>>

\* AppInitialized without the special modes of main lines 213-225.
AppInitialized_NoSpecialModes ==
    /\ apc = "a_init_wait"
    /\ epc \in {"init_returned", "init_raised"}
    /\ IF epc = "init_returned"
       THEN apc' = "run_start" /\ UNCHANGED <<mexit, alog>>
       ELSE IF eexc = "Exception"
       THEN apc' = "m_finally" /\ mexit' = "SystemExit" /\ UNCHANGED alog
       ELSE apc' = "m_finally" /\ mexit' = eexc /\ UNCHANGED alog
    /\ UNCHANGED <<opts, app_engine, app_shutdown, loop_i, success_count, sigs>>
    /\ UNCHANGED <<creatorVars, engineVars, healthVars>>

\* engine.initialize() is over. initialize, lines 60-65: True, or False when an
\* Exception was raised; main, lines 209-228: sys.exit(1) on False, return in a
\* special mode, otherwise run. An exception that `except Exception` does not
\* catch leaves initialize and the try statement of main.
AppInitialized ==
    /\ apc = "a_init_wait"
    /\ epc \in {"init_returned", "init_raised"}
    /\ IF epc = "init_returned"
       THEN IF opts.validate_config
            THEN apc' = "m_finally" /\ mexit' = "return"
                 /\ alog' = Append(alog, "validate_config")
            ELSE IF opts.proxy_test
            THEN apc' = "m_finally" /\ mexit' = "return"
                 /\ alog' = Append(alog, "proxy_test")
            ELSE IF opts.email_test
            THEN apc' = "m_finally" /\ mexit' = "return"
                 /\ alog' = Append(alog, "email_test")
            ELSE apc' = "run_start" /\ UNCHANGED <<mexit, alog>>
       ELSE IF eexc = "Exception"
       THEN apc' = "m_finally" /\ mexit' = "SystemExit" /\ UNCHANGED alog
       ELSE apc' = "m_finally" /\ mexit' = eexc /\ UNCHANGED alog
    /\ UNCHANGED <<opts, app_engine, app_shutdown, loop_i, success_count, sigs>>
    /\ UNCHANGED <<creatorVars, engineVars, healthVars>>

\* run, lines 70-79: without an engine a RuntimeError, caught at line 95;
\* engine.start() (engine.py:173-188) sets the status and suspends nowhere.
RunStart ==
    /\ apc = "run_start"
    /\ IF ~app_engine
       THEN /\ alog' = alog \o <<"run", "run_error">>
            /\ apc' = "m_finally" /\ mexit' = "return"
            /\ UNCHANGED <<status, loop_i, success_count>>
       ELSE /\ alog' = Append(alog, "run")
            /\ status' = "running"
            /\ loop_i' = 0 /\ success_count' = 0
            /\ apc' = "run_loop"
            /\ UNCHANGED mexit
    /\ UNCHANGED <<opts, app_engine, app_shutdown, sigs>>
    /\ UNCHANGED <<shutdown_event, components, statistics, epc, einit, eloc, eresult,
                   eexc, ecancels, ecalls>>
    /\ UNCHANGED <<creatorVars, healthVars>>

\* RunLoop without the test of the shutdown event (lines 81-82).
RunLoop_NoShutdownCheck ==
    /\ apc = "run_loop"
    /\ IF loop_i < opts.accounts
       THEN /\ alog' = Append(alog, "create")
            /\ apc' = "run_wait"
            /\ epc' = "ca_begin" /\ eexc' = "none" /\ ecancels' = 0
            /\ eloc' = NoLocals /\ eresult' = None
            /\ UNCHANGED mexit
       ELSE /\ alog' = Append(alog, "run_done")
            /\ apc' = "m_finally" /\ mexit' = "return"
            /\ UNCHANGED <<epc, eexc, ecancels, eloc, eresult>>
    /\ UNCHANGED <<opts, app_engine, app_shutdown, loop_i, success_count, sigs>>
    /\ UNCHANGED <<status, shutdown_event, components, statistics, einit, ecalls>>
    /\ UNCHANGED <<creatorVars, healthVars>>

\* run, lines 80-85 and 93: the head of the for loop, the test of the shutdown
\* event and the call of engine.create_account, with no await in between.
RunLoop ==
    /\ apc = "run_loop"
    /\ IF loop_i < opts.accounts /\ ~app_shutdown
       THEN /\ alog' = Append(alog, "create")
            /\ apc' = "run_wait"
            /\ epc' = "ca_begin" /\ eexc' = "none" /\ ecancels' = 0
            /\ eloc' = NoLocals /\ eresult' = None
            /\ UNCHANGED mexit
       ELSE /\ alog' = Append(alog, "run_done")
            /\ apc' = "m_finally" /\ mexit' = "return"
            /\ UNCHANGED <<epc, eexc, ecancels, eloc, eresult>>
    /\ UNCHANGED <<opts, app_engine, app_shutdown, loop_i, success_count, sigs>>
    /\ UNCHANGED <<status, shutdown_event, components, statistics, einit, ecalls>>
    /\ UNCHANGED <<creatorVars, healthVars>>

\* RunResult with success_count incremented for every result (line 87 lost).
RunResult_CountsAll ==
    /\ apc = "run_wait"
    /\ epc \in {"ca_returned", "ca_raised"}
    /\ IF epc = "ca_returned"
       THEN /\ success_count' = success_count + 1
            /\ alog' = Append(alog, IF eresult.success THEN "success" ELSE "failure")
            /\ loop_i' = loop_i + 1
            /\ apc' = "run_loop"
            /\ UNCHANGED mexit
       ELSE IF eexc = "Exception"
       THEN /\ alog' = Append(alog, "run_error")
            /\ apc' = "m_finally" /\ mexit' = "return"
            /\ UNCHANGED <<success_count, loop_i>>
       ELSE /\ apc' = "m_finally" /\ mexit' = eexc
            /\ UNCHANGED <<success_count, loop_i, alog>>
    /\ UNCHANGED <<opts, app_engine, app_shutdown, sigs>>
    /\ UNCHANGED <<creatorVars, engineVars, healthVars>>

\* run, lines 85-91 and 95-96: the result of engine.create_account is counted
\* and the loop goes on; an Exception ends run with a log line; an exception
\* that `except Exception` does not catch leaves run and, not being caught at
\* main lines 230-234 either, the try statement of main.
RunResult ==
    /\ apc = "run_wait"
    /\ epc \in {"ca_returned", "ca_raised"}
    /\ IF epc = "ca_returned"
       THEN /\ success_count' = success_count + (IF eresult.success THEN 1 ELSE 0)
            /\ alog' = Append(alog, IF eresult.success THEN "success" ELSE "failure")
            /\ loop_i' = loop_i + 1
            /\ apc' = "run_loop"
            /\ UNCHANGED mexit
       ELSE IF eexc = "Exception"
       THEN /\ alog' = Append(alog, "run_error")
            /\ apc' = "m_finally" /\ mexit' = "return"
            /\ UNCHANGED <<success_count, loop_i>>
       ELSE /\ apc' = "m_finally" /\ mexit' = eexc
            /\ UNCHANGED <<success_count, loop_i, alog>>
    /\ UNCHANGED <<opts, app_engine, app_shutdown, sigs>>
    /\ UNCHANGED <<creatorVars, engineVars, healthVars>>

\* MainFinally with the call of engine.stop() (lines 104-105) lost.
MainFinally_NoStop ==
    /\ apc = "m_finally"
    /\ app_shutdown' = TRUE
    /\ alog' = alog \o <<"finally", "shutdown">>
    /\ apc' = "m_done"
    /\ UNCHANGED <<epc, eexc, ecancels>>
    /\ UNCHANGED <<opts, app_engine, loop_i, success_count, sigs, mexit>>
    /\ UNCHANGED <<status, shutdown_event, components, statistics, einit, eloc, eresult,
                   ecalls>>
    /\ UNCHANGED <<creatorVars, healthVars>>

\* main, lines 235-236, and shutdown, lines 100-105: the event is set and, if
\* there is an engine, its stop() awaited.
MainFinally ==
    /\ apc = "m_finally"
    /\ app_shutdown' = TRUE
    /\ IF app_engine
       THEN /\ alog' = alog \o <<"finally", "shutdown", "stop">>
            /\ apc' = "sd_wait"
            /\ epc' = "stop_begin" /\ eexc' = "none" /\ ecancels' = 0
       ELSE /\ alog' = alog \o <<"finally", "shutdown">>
            /\ apc' = "m_done"
            /\ UNCHANGED <<epc, eexc, ecancels>>
    /\ UNCHANGED <<opts, app_engine, loop_i, success_count, sigs, mexit>>
    /\ UNCHANGED <<status, shutdown_event, components, statistics, einit, eloc, eresult,
                   ecalls>>
    /\ UNCHANGED <<creatorVars, healthVars>>

\* shutdown, lines 107-110, and the end of main: engine.stop() raises nothing.
ShutdownDone ==
    /\ apc = "sd_wait"
    /\ epc = "stop_returned"
    /\ apc' = "m_done"
    /\ UNCHANGED <<opts, app_engine, app_shutdown, loop_i, success_count, sigs, alog, mexit>>
    /\ UNCHANGED <<creatorVars, engineVars, healthVars>>

\* signal_handler, lines 40-42: SIGINT or SIGTERM arrives once the handlers are
\* installed; the handler creates a task that will run shutdown().
SignalReceived ==
    /\ apc \notin {"unused", "m_start", "m_done"}
    /\ sigs.received < MaxSignals
    /\ sigs' = [received |-> sigs.received + 1, pending |-> sigs.pending + 1]
    /\ UNCHANGED <<apc, opts, app_engine, app_shutdown, loop_i, success_count, alog, mexit>>
    /\ UNCHANGED <<creatorVars, engineVars, healthVars>>

\* The task created by the signal handler runs shutdown() (lines 100-110) when
\* the event loop next takes a turn: while main is suspended inside the engine,
\* or, when the signal came after the last await of main, right after main has
\* returned or has been cancelled (the task is ahead of the callback that stops
\* the loop). A SystemExit of main stops the loop at once and the task never
\* runs. engine.stop() (engine.py:291-319) reaches no await before it ends:
\* status, event, and the services as in StopServices and StopExcept.
ShutdownTask ==
    /\ sigs.pending > 0
    /\ \/ apc \in {"a_init_wait", "run_wait"} /\ EngineSuspended
       \/ apc = "m_done" /\ mexit # "SystemExit"
    /\ sigs' = [sigs EXCEPT !.pending = @ - 1]
    /\ app_shutdown' = TRUE
    /\ IF app_engine
       THEN /\ alog' = alog \o <<"shutdown", "stop">>
            /\ shutdown_event' = TRUE
            /\ IF "facebook_service" \notin EngineAttributes
               THEN status' = "error" /\ UNCHANGED ecalls
               ELSE /\ ecalls' = ecalls \o StopLog(StopCalls)
                    /\ status' = IF "thread_manager" \notin EngineAttributes
                                 THEN "error" ELSE "stopped"
       ELSE /\ alog' = Append(alog, "shutdown")
            /\ UNCHANGED <<shutdown_event, status, ecalls>>
    /\ UNCHANGED <<apc, opts, app_engine, loop_i, success_count, mexit>>
    /\ UNCHANGED <<components, statistics, epc, einit, eloc, eresult, eexc, ecancels>>
    /\ UNCHANGED <<creatorVars, healthVars>>

AppStep ==
    \/ MainStart
    \/ AppInitialize
    \/ AppInitialized
    \/ RunStart
    \/ RunLoop
    \/ RunResult
    \/ MainFinally
    \/ ShutdownDone
    \/ SignalReceived
    \/ ShutdownTask

CreatorStep(t) ==
    \/ Start(t)
    \/ WaitForRateLimit(t)
    \/ GenerateIdentity(t)
    \/ GetTemporaryEmail(t)
    \/ GetProxy(t)
    \/ GetUserAgent(t)
    \/ CheckResources(t)
    \/ SetupBrowser(t)
    \/ ExecuteStealthScripts(t)
    \/ NavigateToRegistration(t)
    \/ FillRegistrationForm(t)
    \/ SubmitRegistrationForm(t)
    \/ HandleVerification(t)
    \/ WhileCheck(t)
    \/ Poll(t)
    \/ PollSleep(t)
    \/ AfterWait(t)
    \/ OpenLink(t)
    \/ SetResult(t)
    \/ ExceptHandler(t)
    \/ ReportProxyFailure(t)
    \/ CleanupBrowser(t)
    \/ ReleaseCheck(t)
    \/ ReleaseEmail(t)
    \/ Exit(t)

\* One create_account task on a FacebookAccountCreator.
Next == \E t \in TaskIds : CreatorStep(t)

Spec == Init /\ [][Next]_vars

\* Two create_account tasks on one FacebookAccountCreator. A task that is
\* between two awaits is running: the event loop gives the turn to the other
\* task only at an await. The handler of line 162 runs on to the await of line
\* 169, and to _cleanup_browser (which awaits nothing) when it reports nothing.
Running(u) ==
    \/ pc[u] \in {"check", "setup_browser", "stealth", "navigate", "fill_form", "submit",
                  "verification", "while", "after_wait", "open_link", "set_result",
                  "except", "report", "release_check", "exit"}
    \/ pc[u] = "finally" /\ \A i \in 1..Len(calls) :
                               ~(calls[i].by = u /\ calls[i].op = "report_proxy_failure")

\* What the managers hand to each task: every task gets resources of its own.
OwnEmail == <<"e1", "e2">>
OwnProxy == <<"p1", "p2">>

\* The runs explored with two tasks: no cancellation is delivered, each task
\* polls at most MaxTwoPolls times, every acquisition that returns gives the
\* task its own resource (or, from the proxy manager, no proxy), and no account
\* id is found in the page. Any call may still raise.
TwoBound ==
    \A t \in TaskIds :
        /\ cancels[t] = <<>> /\ polls[t] <= MaxTwoPolls
        /\ loc[t].email \in {Unbound, OwnEmail[t]}
        /\ loc[t].proxy \in {Unbound, OwnProxy[t], None}
        /\ loc[t].identity # None /\ loc[t].user_agent # None
        /\ vres[t].account_id = None

\* Both tasks are created with no custom identity and no custom email.
InitTwo ==
    /\ InitCreator(TaskIds) /\ InitEngine /\ InitApp(FALSE) /\ InitHealth(FALSE)
    /\ cancelIsBase
    /\ \A t \in TaskIds : args[t] = [custom_identity |-> None, custom_email |-> None]

NextTwo ==
    \E t \in TaskIds :
        /\ \A u \in TaskIds \ {t} : ~Running(u)
        /\ CreatorStep(t)
        /\ TwoBound'

SpecTwo == InitTwo /\ [][NextTwo]_vars

\* A FACBTEngine driven by a caller.
InitE == InitCreator({}) /\ InitEngine /\ InitApp(FALSE) /\ InitHealth(FALSE)

SpecEngine == InitE /\ [][EngineStep]_vars

\* One run of main(): the application drives the engine.
InitA == InitCreator({}) /\ InitEngine /\ InitApp(TRUE) /\ InitHealth(FALSE)

NextApp == AppStep \/ EngineBody

SpecApp == InitA /\ [][NextApp]_vars

\* The event loop runs whatever is ready to run.
SpecAppFair == SpecApp /\ WF_vars(NextApp)

\* One call of FacebookAccountCreator.health_check.
InitH == InitCreator({}) /\ InitEngine /\ InitApp(FALSE) /\ InitHealth(TRUE)

SpecHealth == InitH /\ [][HealthCheckStep]_vars
\* =================================================================== claims
Terminal(t) == pc[t] \in {"returned", "raised"}
Entered(t, s) == \E i \in 1..Len(steps[t]) : steps[t][i] = s
CancelledAt(t, places) == \E i \in 1..Len(cancels[t]) : cancels[t][i] \in places

\* The task holds a proxy it got from get_proxy / an email it got from
\* get_temporary_email.
HoldsProxy(t) == loc[t].proxy \in Proxies
HoldsManagerEmail(t) == args[t].custom_email = None /\ loc[t].email \in Emails
HoldsEmail(t) == loc[t].email \in Emails

ProxyReleases(t) == CountCalls(calls, t, "release_proxy", loc[t].proxy)
EmailReleases(t) == CountCalls(calls, t, "release_email", loc[t].email)
DriverQuits(t) == CountCalls(calls, t, "quit", t)
ProxyReports(t) == CountCalls(calls, t, "report_proxy_failure", loc[t].proxy)

\* C1: when FacebookAccountCreator.create_account has ended, whether it returned
\* a Completed or a Failed result or a fault occurred on the way, the proxy it
\* got from get_proxy and the email it got from get_temporary_email have each
\* been handed back to their manager by a release call.
C1_ReleasedAtEnd ==
    \A t \in TaskIds :
        (Terminal(t) /\ cancels[t] = <<>>) =>
            /\ HoldsProxy(t) => ProxyReleases(t) >= 1
            /\ HoldsManagerEmail(t) => EmailReleases(t) >= 1

\* C3: without any cancellation, FacebookAccountCreator.create_account never
\* raises: whatever step faults, it returns a result with success = false and
\* status Failed that carries the error.
C3_NoFaultEscapes ==
    \A t \in TaskIds :
        cancels[t] = <<>> =>
            /\ pc[t] # "raised"
            /\ (pc[t] = "returned" /\ ~result[t].success) =>
                   (result[t].status = "failed" /\ result[t].error_message # None)

\* C4: a task whose polling loop ran into the maximum wait returns a Failed
\* result whose reason is the confirmation timeout, and its email and its proxy
\* have each been released exactly once.
C4_TimeoutFailsAndReleases ==
    \A t \in TaskIds :
        (pc[t] = "returned" /\ cancels[t] = <<>>
            /\ waitres[t].error = "Verification email timeout") =>
            /\ result[t].status = "failed"
            /\ result[t].error_message = "Verification email timeout"
            /\ HoldsEmail(t) => EmailReleases(t) = 1
            /\ HoldsProxy(t) => ProxyReleases(t) = 1

\* C5: a failed poll is swallowed and retried: without a cancellation, the
\* polling loop ends without a verification link only once the maximum wait
\* has elapsed.
C5_PollFailureRetried ==
    \A t \in TaskIds :
        (cancels[t] = <<>> /\ pc[t] = "after_wait" /\ ~waitres[t].success) =>
            elapsed[t] >= MaxWaitTime

\* C6: when the acquisition of the identity, the email, the proxy or the user
\* agent failed or yielded nothing, the task never sets up a browser and ends by
\* returning a Failed result.
AcquisitionFailed(t) ==
    /\ Entered(t, "identity")
    /\ pc[t] \notin {"identity", "email", "proxy", "user_agent"}
    /\ \E v \in {"identity", "email", "proxy", "user_agent"} :
          loc[t][v] \in {Unbound, None}

C6_AcquisitionFailureFails ==
    \A t \in TaskIds :
        (cancels[t] = <<>> /\ AcquisitionFailed(t)) =>
            /\ ~Entered(t, "setup_browser")
            /\ Terminal(t) => (pc[t] = "returned" /\ result[t].status = "failed")

\* C7: a task cancelled in the polling loop (inside a poll or in the sleep
\* between polls) has, when it ends, called quit() on its browser and a release
\* on its proxy and on its email.
C7_CancelledPollingReleases ==
    \A t \in TaskIds :
        (Terminal(t) /\ CancelledAt(t, {"poll", "sleep"})) =>
            /\ browsers[t] # "none" => DriverQuits(t) >= 1
            /\ HoldsProxy(t) => ProxyReleases(t) >= 1
            /\ HoldsEmail(t) => EmailReleases(t) >= 1

\* C8: a task that obtained a proxy and returned a Failed result has reported
\* the failure of that proxy to the proxy manager exactly once.
C8_FailureReportedOnce ==
    \A t \in TaskIds :
        (pc[t] = "returned" /\ result[t].status = "failed" /\ HoldsProxy(t)
            /\ cancels[t] = <<>>) =>
            ProxyReports(t) = 1

\* C9: a result returned by FacebookAccountCreator.create_account is Completed
\* exactly when success is true and Failed exactly when success is false (so it
\* is in no other status), and it is Completed only after _handle_verification
\* reported success.
C9_ReturnedResultIsTerminal ==
    \A t \in TaskIds :
        pc[t] = "returned" =>
            /\ result[t].success <=> result[t].status = "completed"
            /\ ~result[t].success <=> result[t].status = "failed"
            /\ result[t].status = "completed" => vres[t].success

\* C9 witness: a task returned a Completed result after a confirmed verification.
C9_Witness ==
    \E t \in TaskIds :
        /\ pc[t] = "returned"
        /\ result[t].status = "completed"
        /\ result[t].verification_required
        /\ polls[t] >= 2

\* ---- engine
EngineCalls(op, arg) == CountCalls(ecalls, statistics.total_attempts, op, arg)

\* C2: when FACBTEngine.create_account has finished, each of the session, the
\* proxy and the email it acquired has been passed to its cleanup operation
\* exactly once, whether or not an earlier cleanup step failed.
C2_EachCleanedUpOnce ==
    epc \in {"ca_returned", "ca_raised"} =>
        /\ eloc.session \in Sessions => EngineCalls("cleanup_session", eloc.session) = 1
        /\ eloc.proxy \in Proxies => EngineCalls("release_proxy", eloc.proxy) = 1
        /\ eloc.email \in Emails => EngineCalls("cleanup_email", eloc.email) = 1

\* C10: when FACBTEngine.stop() has completed, the status is STOPPED, the
\* shutdown event is set, and stop() has been called on each of the session,
\* email and proxy managers that is set.
C10_StopEndsStopped ==
    epc = "stop_returned" =>
        /\ status = "stopped"
        /\ shutdown_event
        /\ \A m \in {"session_manager", "email_manager", "proxy_manager"} \cap components :
              \E i \in 1..Len(ecalls) : ecalls[i].op = "stop" /\ ecalls[i].arg = m
\* C11: when FACBTEngine.initialize() has returned without raising, the status
\* is RUNNING and proxy_manager, user_agent_manager, email_manager,
\* identity_manager, behavior_simulator and anti_detection are all set.
C11_InitializedEngineIsRunning ==
    epc = "init_returned" =>
        /\ status = "running"
        /\ {"proxy_manager", "user_agent_manager", "email_manager", "identity_manager",
            "behavior_simulator", "anti_detection"} \subseteq components

\* C11 witness: initialize() returned.
C11_Witness == epc = "init_returned" /\ eexc = "none" /\ Len(InitOrder) = einit
\* C17: with no cancellation delivered, FacebookAccountCreator.health_check
\* never raises, and it returns true exactly when the health checks of all six
\* dependencies return true (false when any returns false or raises).
C17_HealthIffAllHealthy ==
    (\A i \in 1..Len(Dependencies) : hin[i] # "cancel") =>
        /\ hpc # "raised"
        /\ hpc = "returned" =>
              (hres = TRUE <=> \A i \in 1..Len(Dependencies) : hin[i] = "true")
        /\ hpc = "returned" => hres \in BOOLEAN

\* C17 witness: health_check returned false because the last dependency, after
\* five healthy ones, raised.
C17_Witness ==
    /\ hpc = "returned" /\ hres = FALSE
    /\ hidx = Len(Dependencies) /\ hin[hidx] = "raise"

\* How often the event e is in the log s.
RECURSIVE Occurrences(_, _)
Occurrences(s, e) ==
    IF s = <<>> THEN 0
    ELSE (IF Head(s) = e THEN 1 ELSE 0) + Occurrences(Tail(s), e)

Logged(e) == \E i \in 1..Len(alog) : alog[i] = e

\* C12: FACBTApplication.run calls engine.create_account one call at a time,
\* never more than N times, and exactly N times when run completes with no
\* shutdown signal received; success_count is the number of calls that returned
\* success = true, so 0 <= success_count <= calls <= N.
C12_RunCreatesNAccounts ==
    LET creates == Occurrences(alog, "create")
        returns == Occurrences(alog, "success") + Occurrences(alog, "failure")
    IN /\ success_count = Occurrences(alog, "success")
       /\ success_count <= creates /\ creates <= opts.accounts
       /\ apc = "run_loop" => creates = returns /\ loop_i = creates
       /\ apc = "run_wait" => creates = returns + 1
       /\ (Logged("run_done") /\ sigs.received = 0) => creates = opts.accounts

\* C12 witness: run completed MaxAccounts calls with no signal received.
C12_Witness ==
    /\ Logged("run_done") /\ sigs.received = 0
    /\ opts.accounts = MaxAccounts
    /\ Occurrences(alog, "failure") = MaxAccounts

\* C13: engine.create_account is only ever called by run in a state where the
\* application's shutdown event is not set, and once a signal has been
\* received main eventually leaves run (it reaches its finally block).
C13_NoCreationAfterShutdown ==
    /\ [][(apc = "run_loop" /\ apc' = "run_wait") => ~app_shutdown]_vars
    /\ [][app_shutdown => Occurrences(alog', "create") = Occurrences(alog, "create")]_vars
    /\ (sigs.received > 0) ~> (apc \in {"m_finally", "sd_wait", "m_done"})

\* C13 witness: the shutdown task ran during an account creation and the loop
\* then broke off before all the accounts asked for had been attempted.
C13_Witness ==
    /\ app_shutdown /\ Logged("run_done")
    /\ Occurrences(alog, "create") < opts.accounts
    /\ Occurrences(alog, "create") >= 1

\* C14: in a run with --test-mode, engine.create_account is never called.
C14_TestModeCreatesNothing ==
    opts.test_mode => ~Logged("create")

\* C15: with --validate-config, --proxy-test or --email-test, main never calls
\* FACBTApplication.run or engine.create_account, and when main has finished
\* app.shutdown() has been executed by its finally block.
C15_SpecialModesSkipRun ==
    (opts.validate_config \/ opts.proxy_test \/ opts.email_test) =>
        /\ ~Logged("run") /\ ~Logged("create")
        /\ apc \notin {"run_start", "run_loop", "run_wait"}
        /\ apc = "m_done" =>
              \E i \in 1..(Len(alog) - 1) : alog[i] = "finally" /\ alog[i + 1] = "shutdown"

\* C15 witness: main finished in proxy test mode after a successful
\* initialization.
C15_Witness ==
    /\ apc = "m_done" /\ mexit = "return"
    /\ Logged("proxy_test")

\* C16: however the try statement of main is left, main ends only after its
\* finally block has executed app.shutdown(); every execution of shutdown sets
\* the shutdown event and, if an engine exists, calls engine.stop().
C16_ShutdownOnEveryExit ==
    /\ apc = "m_done" =>
          /\ mexit \in {"return", "SystemExit", "CancelledError"}
          /\ \E i \in 1..(Len(alog) - 1) : alog[i] = "finally" /\ alog[i + 1] = "shutdown"
    /\ \A i \in 1..Len(alog) :
          alog[i] = "shutdown" =>
             /\ app_shutdown
             /\ app_engine => (i < Len(alog) /\ alog[i + 1] = "stop")
    /\ (apc = "m_done" /\ app_engine) => (shutdown_event /\ epc = "stop_returned")
    /\ apc \in {"m_finally", "sd_wait", "m_done"} <=> mexit # "none"

\* C16 witness: initialization of the engine failed, main left through
\* sys.exit(1), and shutdown stopped the engine that exists.
C16_Witness ==
    /\ apc = "m_done" /\ mexit = "SystemExit"
    /\ app_engine /\ Logged("stop")

\* create_account is in its finally block (lines 279-289).
InCleanup == epc \in {"ca_cleanup_session", "ca_release_proxy", "ca_cleanup_email",
                      "ca_exit"}

\* C18: FACBTEngine.create_account never raises an Exception (only a
\* cancellation that is not an Exception leaves it); what it returns after a
\* fault in acquisition, workflow or cleanup is an AccountResult with
\* success = false and an error message, and no step of the cleanup changes the
\* result to be returned. Every call in this repository meets a fault, the
\* undefined AccountCreationStateMachine at the latest.
C18_FaultsBecomeFailedResults ==
    /\ [](epc = "ca_raised" => (eexc = "CancelledError" /\ cancelIsBase /\ ecancels > 0))
    /\ [](epc = "ca_returned" =>
             (eresult.success = FALSE /\ eresult.error # None))
    /\ [][InCleanup => eresult' = eresult]_vars

\* C18 witness: the workflow failed with all resources acquired, the first
\* cleanup call failed and ended the cleanup, and the failure of the workflow
\* was returned.
C18_Witness ==
    /\ epc = "ca_returned"
    /\ eloc.session \in Sessions /\ eloc.proxy \in Proxies
    /\ EngineCalls("cleanup_session", eloc.session) = 1
    /\ EngineCalls("release_proxy", eloc.proxy) = 0
    /\ eresult = FailedResult("Account creation error: name 'AccountCreationStateMachine' is not defined")

\* ---- workflow order and polling
StepOrder == <<"rate_limit", "identity", "email", "proxy", "user_agent", "setup_browser",
               "navigate", "fill_form", "submit", "verification">>

IsPrefix(s, r) == Len(s) <= Len(r) /\ \A i \in 1..Len(s) : s[i] = r[i]

\* The positions of create_account after its try block was left.
AfterTry == {"except", "report", "finally", "release_check", "release_email", "exit",
             "returned", "raised"}

\* C19: the workflow steps of FacebookAccountCreator.create_account run in the
\* fixed order rate-limit wait, acquisitions, browser setup, navigation, form
\* fill, form submit, verification; once a step has raised, the coroutine is in
\* its failure handling and cleanup, from where no workflow step is run.
C19_StepsInOrder ==
    /\ [](\A t \in TaskIds : IsPrefix(steps[t], StepOrder))
    /\ [](\A t \in TaskIds : (errmsg[t] # None \/ exc[t] # "none") => pc[t] \in AfterTry)
    /\ [][\A t \in TaskIds : pc[t] \in AfterTry =>
             (steps'[t] = steps[t] /\ pc'[t] \in AfterTry)]_vars

\* C19 witness: filling the form raised; the form was not submitted and no
\* verification was handled.
C19_Witness ==
    \E t \in TaskIds :
        /\ pc[t] = "returned"
        /\ steps[t] = SubSeq(StepOrder, 1, 8)
        /\ errmsg[t] = "Failed to fill registration form"

\* C20: in _wait_for_verification_email a poll starts only while the elapsed
\* time is below the maximum wait, each earlier poll was followed by a sleep
\* of the check interval, so there are at most MaxWaitTime / CheckInterval
\* polls, and the loop head reached at or after the maximum wait ends the loop
\* with the timeout failure.
C20_PollingBounded ==
    /\ [](\A t \in TaskIds :
             /\ polls[t] <= MaxWaitTime \div CheckInterval
             /\ pc[t] = "poll" => elapsed[t] < MaxWaitTime
             /\ pc[t] \in {"while", "poll"} => elapsed[t] >= CheckInterval * polls[t]
             /\ waitres[t].error = "Verification email timeout" =>
                   (~waitres[t].success /\ elapsed[t] >= MaxWaitTime))
    /\ [][\A t \in TaskIds :
             (pc[t] = "while" /\ elapsed[t] >= MaxWaitTime) =>
                (pc'[t] = "after_wait" /\ ~waitres'[t].success
                 /\ waitres'[t].error = "Verification email timeout")]_vars

\* C20 witness: every poll found nothing and took no time; after the last of
\* the MaxWaitTime / CheckInterval polls the loop ended with the timeout.
C20_Witness ==
    \E t \in TaskIds :
        /\ pc[t] = "after_wait"
        /\ polls[t] = MaxWaitTime \div CheckInterval
        /\ elapsed[t] = MaxWaitTime
        /\ waitres[t] = Fail("Verification email timeout")

\* Number of calls of op, with any argument, made by task t.
RECURSIVE CallsBy(_, _, _)
CallsBy(s, t, op) ==
    IF s = <<>> THEN 0
    ELSE (IF Head(s).by = t /\ Head(s).op = op THEN 1 ELSE 0) + CallsBy(Tail(s), t, op)

\* C21: a create_account task that got no proxy from the proxy manager does
\* not fail for that: with the other resources present it goes on to set up
\* the browser, which stores no proxy; proxy_used of its result stays empty,
\* and the task neither reports a proxy failure nor releases a proxy.
C21_NoProxyIsNotAFailure ==
    /\ [](\A t \in TaskIds :
             loc[t].proxy = None =>
                /\ result[t].proxy_used = None
                /\ CallsBy(calls, t, "report_proxy_failure") = 0
                /\ CallsBy(calls, t, "release_proxy") = 0)
    /\ [][\A t \in TaskIds :
             (/\ pc[t] = "check" /\ loc[t].proxy = None /\ loc[t].email # None
              /\ loc[t].identity # None /\ loc[t].user_agent # None)
             => pc'[t] = "setup_browser"]_vars
    /\ [][\A t \in TaskIds :
             (pc[t] = "setup_browser" /\ loc[t].proxy = None /\ pc'[t] = "stealth")
             => (current_proxy' = None /\ browsers'[t] = "open")]_vars

\* The positions inside _handle_verification (lines 508-555).
InVerification == {"verification", "while", "poll", "sleep", "after_wait", "open_link",
                   "open_link_530"}

\* C22: _handle_verification is left only by returning an outcome with a
\* success flag (or by a cancellation that is not an Exception). Without a
\* request for verification on the page it returns success and no poll was
\* made; with one, it returns success only if a poll produced a verification
\* link, and otherwise one of its two failures.
C22_VerificationOutcome ==
    /\ [](\A t \in TaskIds :
             pc[t] = "set_result" =>
                /\ vres[t].success \in BOOLEAN
                /\ (vres[t].success /\ ~vres[t].verification_required) => polls[t] = 0
                /\ polls[t] = 0 =>
                      \/ vres[t].success /\ ~vres[t].verification_required
                      \/ ~vres[t].success /\ vres[t].error = "Verification handling failed"
                /\ polls[t] > 0 =>
                      /\ vres[t].success =>
                            (waitres[t].success /\ waitres[t].link
                             /\ vres[t].verification_required)
                      /\ ~vres[t].success =>
                            vres[t].error \in {"Email verification failed",
                                               "Verification handling failed"}
                      /\ ~waitres[t].success =>
                            (~vres[t].success /\ vres[t].error = "Email verification failed"))
    /\ [][\A t \in TaskIds :
             (pc[t] \in InVerification /\ pc'[t] \notin InVerification) =>
                \/ pc'[t] = "set_result"
                \/ pc'[t] = "finally" /\ exc'[t] = "CancelledError" /\ cancelIsBase]_vars

\* C22 witness: verification was asked for, the second poll produced the link,
\* and _handle_verification returned success.
C22_Witness ==
    \E t \in TaskIds :
        /\ pc[t] = "set_result" /\ polls[t] = 2
        /\ vres[t].success /\ vres[t].verification_required
        /\ waitres[t].link

\* Every component of InitOrder is set on the engine.
FullyInitialized == \A i \in 1..Len(InitOrder) : InitOrder[i] \in components

\* C23: when FACBTEngine.initialize is left by an Exception the status is
\* ERROR; main then leaves its try statement through sys.exit(1) (or, for a
\* cancellation that is not an Exception, with that exception) and never calls
\* run: run and create_account are only ever called on an engine whose
\* initialize returned, with every component set.
C23_FailedInitNeverRuns ==
    /\ []((epc = "init_raised" /\ eexc = "Exception") => status = "error")
    /\ []((Logged("run") \/ Logged("create") \/ statistics.total_attempts > 0)
            => (FullyInitialized /\ mexit # "SystemExit"))
    /\ []((apc \in {"run_start", "run_loop", "run_wait"}) => FullyInitialized)
    /\ [][(apc = "a_init_wait" /\ epc = "init_raised" /\ apc' # apc) =>
             /\ apc' = "m_finally"
             /\ mexit' = (IF eexc = "Exception" THEN "SystemExit" ELSE "CancelledError")
             /\ alog' = alog]_vars

\* C23 witness: a component of the engine failed to initialize after others
\* were set; initialize raised and main is on its way out through sys.exit(1).
C23_Witness ==
    /\ apc = "m_finally" /\ mexit = "SystemExit"
    /\ epc = "init_raised" /\ eexc = "Exception" /\ status = "error"
    /\ components # {} /\ ~FullyInitialized

\* C24: with two create_account tasks on one FacebookAccountCreator, every
\* quit() is made by the task that created the driver, every proxy failure
\* report names the proxy the reporting task acquired, and when both tasks
\* have ended quit() has been called on every driver that was created.
C24_TasksKeepToTheirOwn ==
    /\ \A i \in 1..Len(calls) :
          /\ calls[i].op = "quit" => calls[i].arg = calls[i].by
          /\ calls[i].op = "report_proxy_failure" => calls[i].arg = loc[calls[i].by].proxy
    /\ (\A t \in TaskIds : Terminal(t)) =>
          \A t \in TaskIds :
             browsers[t] # "none" =>
                \E i \in 1..Len(calls) : calls[i].op = "quit" /\ calls[i].arg = t
====
